---- MODULE Spec2Model ----
(***************************************************************************)
(* Model of algorithms/heartrate.py: the heart rate estimator              *)
(* heartrate_from_indices and the two pipeline builders                    *)
(* get_heartrate_pipe and get_heartrate_score_pipe.                        *)
(*                                                                         *)
(* Numbers.  The code computes in IEEE doubles; the model computes the     *)
(* same expressions in exact rational arithmetic.  A value is a record     *)
(*   [tag |-> "num",  n, d]   the rational n/d, d > 0, in lowest terms     *)
(*   [tag |-> "sqrt", n, d]   the square root of the rational n/d (np.std) *)
(*   [tag |-> "nan"]          numpy's nan (statistics of an empty array)   *)
(*   [tag |-> "inf"]          +inf (60. divided by a zero interval)        *)
(* The int -1 the code returns as sentinel is the rational -1/1: Python    *)
(* compares -1 and -1.0 equal.                                             *)
(*                                                                         *)
(* Arrays.  A numpy array is [dim, w, data]: dim 1 with data a sequence of *)
(* integers, or dim 2 with data a sequence of rows of w integers each.     *)
(*                                                                         *)
(* State.  last is the function that ran last; est and hr are the          *)
(* arguments and result of heartrate_from_indices; cfg holds the closure   *)
(* variables of a built pipeline, call the arguments of a call of it,      *)
(* segcall what the segmenter received and ret what the pipe returned or   *)
(* raised.  ref is a history variable used by the repeated-call property.  *)
(***************************************************************************)
EXTENDS Integers, Sequences, FiniteSets

VARIABLES last, est, hr, cfg, call, segcall, ret, ref

vars == <<last, est, hr, cfg, call, segcall, ret, ref>>

(* ------------------------------ bounds -------------------------------- *)
MaxIdx == 3
MaxLen == 4
MaxMinPeaks == 3
MaxRows == 2
MaxPos == 2
MaxExtra == 1

(* ------------------------------ values -------------------------------- *)
Abs(x) == IF x < 0 THEN -x ELSE x

RECURSIVE GCD(_, _)
GCD(a, b) == IF b = 0 THEN a ELSE GCD(b, a % b)

Num(n, d) ==
  LET s == IF d < 0 THEN -1 ELSE 1
      g == GCD(Abs(n), Abs(d))
  IN  [tag |-> "num", n |-> (s * n) \div g, d |-> (s * d) \div g]

Sqrt(n, d) ==
  LET g == GCD(Abs(n), Abs(d))
  IN  [tag |-> "sqrt", n |-> n \div g, d |-> d \div g]

NaN == [tag |-> "nan", n |-> 0, d |-> 1]
PosInf == [tag |-> "inf", n |-> 1, d |-> 1]
NoVal == [tag |-> "none", n |-> 0, d |-> 1]
Sentinel == Num(-1, 1)

Arr1(s) == [dim |-> 1, w |-> 0, data |-> s]
Arr2(rows, w) == [dim |-> 2, w |-> w, data |-> rows]

(* ------------------------------ numpy --------------------------------- *)
RECURSIVE SumSeq(_)
SumSeq(s) == IF s = <<>> THEN 0 ELSE Head(s) + SumSeq(Tail(s))

RECURSIVE Insert(_, _)
Insert(x, s) ==
  IF s = <<>> THEN <<x>>
  ELSE IF x <= Head(s) THEN <<x>> \o s
  ELSE <<Head(s)>> \o Insert(x, Tail(s))

RECURSIVE NpSort(_)
NpSort(s) == IF s = <<>> THEN <<>> ELSE Insert(Head(s), NpSort(Tail(s)))

Diff1(s) == [i \in 1..(Len(s) - 1) |-> s[i + 1] - s[i]]

RECURSIVE FlattenDiff(_)
FlattenDiff(rows) ==
  IF rows = <<>> THEN <<>> ELSE Diff1(Head(rows)) \o FlattenDiff(Tail(rows))

\* len(a): the size of the first axis
NpLen(a) == Len(a.data)

\* np.diff(a): differences along the last axis; the statistics below reduce
\* over all elements, so a 2-D result is kept flattened in row order
NpDiff(a) == IF a.dim = 1 THEN Diff1(a.data) ELSE FlattenDiff(a.data)

\* np.std(d / f): population standard deviation, sqrt(mean(|x - mean(x)|^2)),
\* of the intervals d[i] / f; nan on an empty array
NpStd(d, f) ==
  LET n == Len(d)
      S == SumSeq(d)
      dev2 == [i \in 1..n |-> (n * d[i] - S) * (n * d[i] - S)]
  IN  IF n = 0 THEN NaN ELSE Sqrt(SumSeq(dev2), n * n * n * f * f)

NpMeanOverPeaks(d, f) ==
  IF Len(d) = 0 THEN NaN ELSE Num(SumSeq(d), (Len(d) + 1) * f)

\* np.mean(d / f)
NpMean(d, f) == IF Len(d) = 0 THEN NaN ELSE Num(SumSeq(d), Len(d) * f)

NpMedianUpper(d, f) ==
  LET n == Len(d)
      s == NpSort(d)
  IN  IF n = 0 THEN NaN ELSE Num(s[n \div 2 + 1], f)

\* np.median(d / f): middle of the sorted values, mean of the two middle
\* ones for an even count
NpMedian(d, f) ==
  LET n == Len(d)
      s == NpSort(d)
  IN  IF n = 0 THEN NaN
      ELSE IF n % 2 = 1 THEN Num(s[(n + 1) \div 2], f)
      ELSE Num(s[n \div 2] + s[n \div 2 + 1], 2 * f)

\* 60. / v for a numpy double v
Div60(v) ==
  IF v.tag = "nan" THEN NaN
  ELSE IF v.n = 0 THEN PosInf
  ELSE Num(60 * v.d, v.n)

VarGreater(std, m) ==
  IF std.tag = "nan" THEN FALSE
  ELSE IF m.tag = "inf" THEN FALSE
  ELSE IF m.n < 0 THEN TRUE
  ELSE std.n * m.d > m.n * std.d

\* std > max_std_seconds as doubles compare: false when std is nan or the
\* bound is +inf
StdGreater(std, m) ==
  IF std.tag = "nan" THEN FALSE
  ELSE IF m.tag = "inf" THEN FALSE
  ELSE IF m.n < 0 THEN TRUE
  ELSE std.n * m.d * m.d > m.n * m.n * std.d

(* ----------------------- heartrate_from_indices ----------------------- *)
TooFewPeaksOffByOne(indices, min_num_peaks) == NpLen(indices) + 1 < min_num_peaks

\* line 22: len(indices) < min_num_peaks
TooFewPeaks(indices, min_num_peaks) == NpLen(indices) < min_num_peaks

heartrate_from_indices(indices, f, max_std_seconds, min_num_peaks, use_median) ==
  IF TooFewPeaks(indices, min_num_peaks) THEN Sentinel
  ELSE LET diffs == NpDiff(indices)
       IN  IF StdGreater(NpStd(diffs, f), max_std_seconds) THEN Sentinel
           ELSE IF use_median THEN Div60(NpMedian(diffs, f))
           ELSE Div60(NpMean(diffs, f))

(* ------------------------------ inputs -------------------------------- *)
SeqsUpTo(S, n) == UNION {[1..k -> S] : k \in 0..n}

ExampleSeqs == {<<0, 10, 20, 30>>, <<0, 10, 20>>, <<0, 8, 20, 33>>}

IndexSeqs == SeqsUpTo(0..MaxIdx, MaxLen) \cup ExampleSeqs

Rates == {2, 10}

Inf == [tag |-> "inf", n |-> 1, d |-> 1]

MaxStds == {Num(-1, 1), Num(0, 1), Num(1, 2), Inf}

NoEst == [indices |-> <<>>, f |-> 1, max_std_seconds |-> Inf,
          min_num_peaks |-> 2, use_median |-> FALSE]

NoCfg == [kind |-> "none", max_std_seconds |-> Inf, min_num_peaks |-> 2,
          use_median |-> FALSE, index |-> <<>>]

NoCall == [x |-> Arr1(<<>>), f |-> 1, pos |-> <<>>, kw |-> {}]

NoRet == [exc |-> "none", rate |-> NoVal, disp |-> NoVal]

NoRef == [set |-> FALSE, again |-> FALSE, cfg |-> NoCfg, call |-> NoCall, ret |-> NoRet]

(* ------------------------- estimator, called directly ----------------- *)
\* The arguments of one call are drawn at the start; Estimate is the call.
EstInit ==
  /\ last = "args"
  /\ est \in [indices : IndexSeqs, f : Rates, max_std_seconds : MaxStds,
              min_num_peaks : 0..MaxMinPeaks, use_median : BOOLEAN]
  /\ hr = NoVal
  /\ cfg = NoCfg
  /\ call = NoCall
  /\ segcall = <<>>
  /\ ret = NoRet
  /\ ref = NoRef

Estimate ==
  /\ last = "args"
  /\ last' = "heartrate_from_indices"
  /\ hr' = heartrate_from_indices(Arr1(est.indices), est.f, est.max_std_seconds,
                                  est.min_num_peaks, est.use_median)
  /\ UNCHANGED <<est, cfg, call, segcall, ret, ref>>

Spec == EstInit /\ [][Estimate]_vars


(* ------------------------------ pipelines ----------------------------- *)
\* The closure variables of a built pipeline are cfg: kind says which builder
\* made it; index is <<>> for None and <<i>> for the integer i.  The score
\* pipeline captures use_median and index only; its other two fields are
\* placeholders.  A signal is identified with the array the segmenter finds
\* in it, so the (external, deterministic) segmenter is the function below.
Segmenter(x, f, args) == x

SegmenterCallNoArgs(x, f, args) == [x |-> x, f |-> f, pos |-> <<>>, kw |-> {}]

\* the call segmenter(x, f, **args), as the segmenter receives it
SegmenterCall(x, f, args) == [x |-> x, f |-> f, pos |-> <<>>, kw |-> args]

\* def pipe(x, f, **args): extra positional arguments, or a keyword argument
\* named like a parameter, make the call itself raise TypeError
BindFails(pos, kw) ==
  \/ Len(pos) > 0
  \/ \E a \in kw : a[1] \in {"x", "f"}

NpColumnFirst(a, index) ==
  IF a.dim = 1 \/ index < 0 \/ index >= a.w
    THEN [ok |-> FALSE, arr |-> Arr1(<<>>)]
    ELSE [ok |-> TRUE, arr |-> Arr1([i \in 1..Len(a.data) |-> a.data[i][1]])]

\* indices[:, index]: IndexError on a 1-D array or a column out of range
NpColumn(a, index) ==
  IF a.dim = 1 \/ index < 0 \/ index >= a.w
    THEN [ok |-> FALSE, arr |-> Arr1(<<>>)]
    ELSE [ok |-> TRUE,
          arr |-> Arr1([i \in 1..Len(a.data) |-> a.data[i][index + 1]])]

\* lines 61-62 and 94-95: if index is not None: indices = indices[:, index]
Project(a, index) ==
  IF index = <<>> THEN [ok |-> TRUE, arr |-> a] ELSE NpColumn(a, index[1])

Raise(e) == [exc |-> e, rate |-> NoVal, disp |-> NoVal]

\* the pipe of get_heartrate_pipe
RatePipe(c, x, f, pos, kw) ==
  IF BindFails(pos, kw) THEN Raise("TypeError")
  ELSE LET p == Project(Segmenter(x, f, kw), c.index)
       IN  IF ~p.ok THEN Raise("IndexError")
           ELSE [exc |-> "none",
                 rate |-> heartrate_from_indices(p.arr, f, c.max_std_seconds,
                                                 c.min_num_peaks, c.use_median),
                 disp |-> NoVal]

ScoreMaxStd == Inf

ScoreMinPeaksThree == 2 + 1

ScoreMinPeaks == 2

ScoreTooFewNone(n) == n < 1

\* line 97: n < 2
ScoreTooFew(n) == n < 2

\* the pipe of get_heartrate_score_pipe
ScorePipe(c, x, f, pos, kw) ==
  IF BindFails(pos, kw) THEN Raise("TypeError")
  ELSE LET p == Project(Segmenter(x, f, kw), c.index)
       IN  IF ~p.ok THEN Raise("IndexError")
           ELSE IF ScoreTooFew(NpLen(p.arr))
             THEN [exc |-> "none", rate |-> Sentinel, disp |-> Sentinel]
           ELSE [exc |-> "none",
                 rate |-> heartrate_from_indices(p.arr, f, ScoreMaxStd,
                                                 ScoreMinPeaks, c.use_median),
                 disp |-> NpStd(NpDiff(p.arr), f)]

SegCalls(x, f, pos, kw) ==
  IF BindFails(pos, kw) THEN <<>> ELSE <<SegmenterCall(x, f, kw)>>

CallRatePipeStateful(x, f, pos, kw) ==
  /\ last = "idle"
  /\ cfg.kind = "rate"
  /\ last' = "rate_pipe"
  /\ call' = [x |-> x, f |-> f, pos |-> pos, kw |-> kw]
  /\ segcall' = SegCalls(x, f, pos, kw)
  /\ ret' = RatePipe(cfg, x, f, pos, kw)
  /\ cfg' = [cfg EXCEPT !.min_num_peaks = NpLen(x)]
  /\ UNCHANGED <<est, hr>>

CallRatePipe(x, f, pos, kw) ==
  /\ last = "idle"
  /\ cfg.kind = "rate"
  /\ last' = "rate_pipe"
  /\ call' = [x |-> x, f |-> f, pos |-> pos, kw |-> kw]
  /\ segcall' = SegCalls(x, f, pos, kw)
  /\ ret' = RatePipe(cfg, x, f, pos, kw)
  /\ UNCHANGED <<cfg, est, hr>>

CallScorePipe(x, f, pos, kw) ==
  /\ last = "idle"
  /\ cfg.kind = "score"
  /\ last' = "score_pipe"
  /\ call' = [x |-> x, f |-> f, pos |-> pos, kw |-> kw]
  /\ segcall' = SegCalls(x, f, pos, kw)
  /\ ret' = ScorePipe(cfg, x, f, pos, kw)
  /\ UNCHANGED <<cfg, est, hr>>

\* the pipe returns (or the exception leaves it); its frame is gone
Return ==
  /\ last \in {"rate_pipe", "score_pipe"}
  /\ last' = "idle"
  /\ call' = NoCall
  /\ segcall' = <<>>
  /\ ret' = NoRet
  /\ UNCHANGED <<cfg, est, hr, ref>>

(* --------------------------- pipeline inputs -------------------------- *)
WaveColumns == {0, 1}

Rows == [1..Cardinality(WaveColumns) -> 0..MaxPos]

Example2D == {<<<<0, 2>>, <<8, 11>>, <<20, 21>>, <<33, 35>>>>,
              <<<<0, 1>>, <<10, 12>>, <<20, 29>>>>}

Signals1D == {Arr1(s) : s \in SeqsUpTo(0..MaxPos, MaxRows + 1) \cup ExampleSeqs}

Signals2D ==
  {Arr2(r, Cardinality(WaveColumns)) : r \in SeqsUpTo(Rows, MaxRows) \cup Example2D}

Signals == Signals1D \cup Signals2D

Indexes == {<<>>} \cup {<<j>> : j \in WaveColumns}

PipeMaxStds == {Num(1, 2), Inf}

PipeMinPeaks == {1, 3}

RateCfgs == [kind : {"rate"}, max_std_seconds : PipeMaxStds,
             min_num_peaks : PipeMinPeaks, use_median : BOOLEAN,
             index : Indexes]

ScoreCfgs == [kind : {"score"}, max_std_seconds : {Inf}, min_num_peaks : {2},
              use_median : BOOLEAN, index : Indexes]

PipeInit ==
  /\ last = "idle"
  /\ cfg \in RateCfgs \cup ScoreCfgs
  /\ est = NoEst
  /\ hr = NoVal
  /\ call = NoCall
  /\ segcall = <<>>
  /\ ret = NoRet
  /\ ref = NoRef

PipeNext ==
  \/ /\ last = "idle"
     /\ \E x \in Signals, f \in Rates :
          CallRatePipe(x, f, <<>>, {}) /\ UNCHANGED ref
  \/ /\ last = "idle"
     /\ \E x \in Signals, f \in Rates :
          CallScorePipe(x, f, <<>>, {}) /\ UNCHANGED ref
  \/ Return

SpecPipe == PipeInit /\ [][PipeNext]_vars

(* ------------------- calls with extra arguments ----------------------- *)
ArgSignals == {Arr1(<<0, 2, 3>>),
               Arr2(<<<<0, 1>>, <<2, 3>>, <<5, 6>>>>, Cardinality(WaveColumns))}

PosArgs == SeqsUpTo({7}, MaxExtra)

KwNames == {"x", "thr", "win"}

KwVals == {1, 2}

KwArgs == {kw \in SUBSET (KwNames \X KwVals) :
             \A a \in kw, b \in kw : a[1] = b[1] => a = b}

ArgsNext ==
  \/ /\ last = "idle"
     /\ \E x \in ArgSignals, f \in Rates, pos \in PosArgs, kw \in KwArgs :
          CallRatePipe(x, f, pos, kw) /\ UNCHANGED ref
  \/ /\ last = "idle"
     /\ \E x \in ArgSignals, f \in Rates, pos \in PosArgs, kw \in KwArgs :
          CallScorePipe(x, f, pos, kw) /\ UNCHANGED ref
  \/ Return

SpecArgs == PipeInit /\ [][ArgsNext]_vars

(* ------------------------- repeated calls ----------------------------- *)
\* ref is a history variable: the configuration, arguments and result of the
\* first call made on the pipeline, and whether a later call repeated it.
RepSignals == {Arr1(<<2>>), Arr1(<<0, 2>>), Arr1(<<0, 1, 3>>),
               Arr2(<<<<0, 1>>, <<2, 2>>, <<3, 5>>>>, Cardinality(WaveColumns))}

RepKwArgs == {{}, {<<"thr", 1>>}}

Remember ==
  ref' = IF ref.set
           THEN [ref EXCEPT !.again = (call' = ref.call)]
           ELSE [set |-> TRUE, again |-> FALSE, cfg |-> cfg,
                 call |-> call', ret |-> ret']

RepNext ==
  \/ /\ last = "idle"
     /\ \E x \in RepSignals, f \in Rates, kw \in RepKwArgs :
          CallRatePipe(x, f, <<>>, kw) /\ Remember
  \/ /\ last = "idle"
     /\ \E x \in RepSignals, f \in Rates, kw \in RepKwArgs :
          CallScorePipe(x, f, <<>>, kw) /\ Remember
  \/ Return

SpecRepeat == PipeInit /\ [][RepNext]_vars

(* --------------------- properties of the estimator -------------------- *)
EstDone == last = "heartrate_from_indices"

EstLen == Len(est.indices)

EstDiffs == [i \in 1..(EstLen - 1) |-> est.indices[i + 1] - est.indices[i]]

StrictlyIncreasing(s) == \A i \in 1..(Len(s) - 1) : s[i] < s[i + 1]

SumOver(d) == SumSeq(d)

SumSquares(d) == SumSeq([i \in 1..Len(d) |-> d[i] * d[i]])

\* The population standard deviation of the intervals d[i] / f exceeds m,
\* with the variance taken as E[x^2] - E[x]^2.
DispersionExceeds(d, f, m) ==
  /\ Len(d) >= 1
  /\ m.tag = "num"
  /\ \/ m.n < 0
     \/ m.d * m.d * (Len(d) * SumSquares(d) - SumOver(d) * SumOver(d))
          > m.n * m.n * Len(d) * Len(d) * f * f

\* The k-th smallest element of d, by rank.
KthSmallest(d, k) ==
  CHOOSE e \in {d[i] : i \in 1..Len(d)} :
    /\ Cardinality({i \in 1..Len(d) : d[i] < e}) < k
    /\ Cardinality({i \in 1..Len(d) : d[i] <= e}) >= k

\* v = 60 / (p / q)
IsSixtyOver(v, p, q) == v.tag = "num" /\ v.n * p = 60 * q * v.d

\* C1: with fewer indices than min_num_peaks the result is -1, whatever the
\* indices, f, max_std_seconds and use_median are.
C1_TooFewPeaksGivesSentinel ==
  (EstDone /\ EstLen < est.min_num_peaks) => hr = Sentinel

C1_Witness ==
  /\ EstDone
  /\ EstLen = 2
  /\ est.min_num_peaks = 3
  /\ est.indices[1] < est.indices[2]
  /\ est.max_std_seconds = Inf
  /\ hr = Sentinel

\* C2: when the population standard deviation of the intervals exceeds
\* max_std_seconds the result is -1, for every min_num_peaks and either mode.
C2_DispersionGateGivesSentinel ==
  (EstDone /\ DispersionExceeds(EstDiffs, est.f, est.max_std_seconds))
    => hr = Sentinel

C2_Witness ==
  /\ EstDone
  /\ EstLen >= est.min_num_peaks
  /\ est.max_std_seconds = Num(1, 2)
  /\ DispersionExceeds(EstDiffs, est.f, est.max_std_seconds)
  /\ StrictlyIncreasing(est.indices)
  /\ hr = Sentinel

\* C3: on inputs that meet the documented preconditions (f > 0,
\* max_std_seconds >= 0, min_num_peaks >= 1, strictly increasing indices of
\* any length) the result is a positive number or the sentinel -1, never nan.
C3_PositiveOrSentinel ==
  ( /\ EstDone
    /\ est.f > 0
    /\ est.max_std_seconds.tag = "inf" \/ est.max_std_seconds.n >= 0
    /\ est.min_num_peaks >= 1
    /\ StrictlyIncreasing(est.indices) )
    => (hr.tag = "num" /\ (hr.n > 0 \/ hr = Sentinel))

\* C7: when at least min_num_peaks (and at least 2) indices are given and the
\* dispersion gate lets them pass, the result is 60 over the median of the
\* intervals in median mode and 60 over their arithmetic mean in mean mode;
\* [0, 8, 20, 33] at f = 10 gives 600/11 and 50, [0, 10, 20, 30] gives 60.
C7_Accepted ==
  /\ EstDone
  /\ EstLen >= 2
  /\ EstLen >= est.min_num_peaks
  /\ ~DispersionExceeds(EstDiffs, est.f, est.max_std_seconds)

\* C7: an accepted sequence yields 60 / median(intervals) in median mode and
\* 60 / mean(intervals) in mean mode, with the two worked examples.
C7_CentralTendency ==
  LET d == EstDiffs
      n == Len(d)
      lo == KthSmallest(d, (n + 1) \div 2)
      hi == KthSmallest(d, n \div 2 + 1)
  IN  C7_Accepted =>
        /\ (est.use_median /\ lo + hi # 0)
             => IsSixtyOver(hr, lo + hi, 2 * est.f)
        /\ (~est.use_median /\ SumOver(d) # 0)
             => IsSixtyOver(hr, SumOver(d), n * est.f)
        /\ (est.indices = <<0, 8, 20, 33>> /\ est.f = 10)
             => hr = IF est.use_median THEN Num(50, 1) ELSE Num(600, 11)
        /\ (est.indices = <<0, 10, 20, 30>> /\ est.f = 10)
             => hr = Num(60, 1)

C7_Witness ==
  /\ C7_Accepted
  /\ est.indices = <<0, 8, 20, 33>>
  /\ est.f = 10
  /\ est.use_median
  /\ est.max_std_seconds = Num(1, 2)
  /\ hr = Num(50, 1)

\* C10: in mean mode, for n >= max(2, min_num_peaks) indices with
\* last # first that pass the dispersion gate, the result is
\* 60 * f * (n - 1) / (last - first).
C10_MeanTelescopes ==
  ( /\ C7_Accepted
    /\ ~est.use_median
    /\ est.indices[EstLen] # est.indices[1] )
    => hr = Num(60 * est.f * (EstLen - 1), est.indices[EstLen] - est.indices[1])

C10_Witness ==
  /\ C7_Accepted
  /\ ~est.use_median
  /\ est.indices = <<0, 1, 3, 3>>
  /\ est.f = 2
  /\ hr = Num(120, 1)

(* --------------------- properties of the pipelines -------------------- *)
PipeDone == last \in {"rate_pipe", "score_pipe"}

\* C4 as stated: every extra argument given after (signal, samplingRate),
\* positional or keyword, reaches the segmenter unchanged.
C4_AllExtrasForwarded ==
  PipeDone => segcall = <<[x |-> call.x, f |-> call.f,
                           pos |-> call.pos, kw |-> call.kw]>>

\* C4 amended: extra keyword arguments (named other than x and f) reach the
\* segmenter unchanged, as segmenter(signal, samplingRate, **kw); a call with
\* an extra positional argument raises TypeError and the segmenter is not
\* invoked.
C4_KeywordsForwarded ==
  PipeDone =>
    /\ (call.pos = <<>> /\ \A a \in call.kw : a[1] \notin {"x", "f"})
         => segcall = <<[x |-> call.x, f |-> call.f,
                         pos |-> <<>>, kw |-> call.kw]>>
    /\ call.pos # <<>> => (segcall = <<>> /\ ret.exc = "TypeError")

C4_Witness ==
  /\ last = "score_pipe"
  /\ call.pos = <<>>
  /\ call.kw = {<<"thr", 2>>, <<"win", 1>>}
  /\ segcall = <<[x |-> call.x, f |-> call.f, pos |-> <<>>, kw |-> call.kw]>>
  /\ ret.exc = "none"

\* the column of a 2-D array, as a plain sequence
ColumnOf(a, j) == [i \in 1..Len(a.data) |-> a.data[i][j + 1]]

\* the index sequence is a plain sequence: a 1-D result used as it is, or a
\* column of a 2-D result
HasIndexSeq ==
  \/ cfg.index = <<>> /\ call.x.dim = 1
  \/ cfg.index # <<>> /\ call.x.dim = 2 /\ cfg.index[1] \in 0..(call.x.w - 1)

IndexSeq ==
  IF cfg.index = <<>> THEN call.x.data ELSE ColumnOf(call.x, cfg.index[1])

\* C5: the score pipeline returns (-1, -1) whenever the index sequence has
\* fewer than 2 elements, for either mode and any sampling rate.
C5_ScoreTooFewGivesPair ==
  (last = "score_pipe" /\ HasIndexSeq /\ Len(IndexSeq) < 2)
    => ret = [exc |-> "none", rate |-> Sentinel, disp |-> Sentinel]

C5_Witness ==
  /\ last = "score_pipe"
  /\ cfg.index = <<1>>
  /\ call.x.dim = 2
  /\ Len(IndexSeq) = 1
  /\ ret = [exc |-> "none", rate |-> Sentinel, disp |-> Sentinel]

PipeResult(c, x, f) ==
  IF c.kind = "rate" THEN RatePipe(c, x, f, <<>>, {})
  ELSE ScorePipe(c, x, f, <<>>, {})

PerturbVals == {0, 50}

\* C6: with index set and a 2-D segmenter result, the result of the pipeline
\* is the one computed from the selected column alone: changing any entry of
\* another column leaves rate and dispersion as they are.
C6_OnlySelectedColumn ==
  (PipeDone /\ cfg.index # <<>> /\ call.x.dim = 2) =>
    /\ ret = PipeResult([cfg EXCEPT !.index = <<>>], Arr1(IndexSeq), call.f)
    /\ \A i \in 1..Len(call.x.data), j \in WaveColumns \ {cfg.index[1]},
          v \in PerturbVals :
         ret = PipeResult(cfg,
                 [call.x EXCEPT !.data[i][j + 1] = v], call.f)

C6_Witness ==
  /\ last = "score_pipe"
  /\ cfg.index = <<1>>
  /\ cfg.use_median
  /\ call.x.dim = 2
  /\ call.x.data = <<<<0, 2>>, <<8, 11>>, <<20, 21>>, <<33, 35>>>>
  /\ call.f = 10
  /\ ret.rate = Num(60, 1)
  /\ ret.disp.tag = "sqrt"

\* C8: a built pipeline holds no hidden state: a call never changes the
\* captured configuration, and a call that repeats the arguments of the first
\* call returns the result of the first call, whatever was called in between.
C8_NoHiddenState ==
  ref.set =>
    /\ cfg = ref.cfg
    /\ (PipeDone /\ call = ref.call) => ret = ref.ret

C8_Witness ==
  /\ ref.set
  /\ ref.again
  /\ last = "rate_pipe"
  /\ call = ref.call
  /\ call.x.dim = 1
  /\ call.x.data = <<0, 1, 3>>
  /\ ret = ref.ret
  /\ ret.rate.tag = "num"
  /\ ret.rate.n > 0

\* C9: on an index sequence of at least 2 strictly increasing elements the
\* score pipeline returns (rate, dispersion) with dispersion the population
\* standard deviation of the intervals and rate the estimate made with
\* max_std_seconds = +inf and min_num_peaks = 2: a positive number, never -1.
C9_Scored ==
  /\ last = "score_pipe"
  /\ HasIndexSeq
  /\ Len(IndexSeq) >= 2
  /\ StrictlyIncreasing(IndexSeq)
  /\ call.f > 0

\* C9: on such a sequence the score pipeline returns the positive rate of
\* the estimator run with +inf and 2, and the population standard deviation.
C9_ScoreNeverRejects ==
  LET d == Diff1(IndexSeq)
      n == Len(d)
  IN  C9_Scored =>
        /\ ret.exc = "none"
        /\ ret.disp = Sqrt(n * SumSquares(d) - SumOver(d) * SumOver(d),
                           n * n * call.f * call.f)
        /\ ret.disp # Sentinel
        /\ ret.rate = heartrate_from_indices(Arr1(IndexSeq), call.f, Inf, 2,
                                             cfg.use_median)
        /\ ret.rate.tag = "num"
        /\ ret.rate.n > 0

C9_Witness ==
  /\ C9_Scored
  /\ call.x.dim = 1
  /\ call.x.data = <<0, 8, 20, 33>>
  /\ call.f = 10
  /\ ~cfg.use_median
  /\ ret.rate = Num(600, 11)
  /\ ret.disp = Sqrt(14, 300)

====
